---------------------------- MODULE Spec2Model ----------------------------
(***************************************************************************)
(* The proxy spider of Spyder_parse/spiders/proxy_spider.py as a state     *)
(* machine: one source fetch, extraction of the table rows, one            *)
(* preliminary GET of the upload endpoint, one POST per chunk of 50        *)
(* proxies, and the completion check that finalizes the run.               *)
(*                                                                         *)
(* Text is a sequence of one-character strings, so that strip(), int(),    *)
(* the f-string formatting and the regular expressions of _extract_save_id *)
(* are computed, character by character, as the code computes them.        *)
(***************************************************************************)
EXTENDS Integers, Sequences, FiniteSets, TLC

(***************************************************************************)
(* Bounds of the model.                                                    *)
(***************************************************************************)
\* the longest source page, in table rows (the code reads rows[:150])
MaxRows == 151
\* the largest reading of the clock, in seconds since the spider was built
MaxClock == 1

(***************************************************************************)
(* Optional values: Python's None and a present value.                     *)
(***************************************************************************)
None == << >>

Some(x) == << x >>

(***************************************************************************)
(* Characters and strings.                                                 *)
(***************************************************************************)
LowerLetters ==
  << "a","b","c","d","e","f","g","h","i","j","k","l","m",
     "n","o","p","q","r","s","t","u","v","w","x","y","z" >>

UpperLetters ==
  << "A","B","C","D","E","F","G","H","I","J","K","L","M",
     "N","O","P","Q","R","S","T","U","V","W","X","Y","Z" >>

DigitChars == << "0","1","2","3","4","5","6","7","8","9" >>

Range(s) == { s[i] : i \in DOMAIN s }

\* \s of the re module and the characters str.strip() removes
IsSpace(c) == c \in { " ", "\n", "\t", "\r" }

IsDigit(c) == c \in Range(DigitChars)

IsAlnum(c) == c \in Range(LowerLetters) \cup Range(UpperLetters) \cup Range(DigitChars)

IsQuote(c) == c \in { "\"", "'" }

\* str.upper() on one character
UpperChar(c) ==
  IF c \in Range(LowerLetters)
  THEN UpperLetters[CHOOSE i \in DOMAIN LowerLetters : LowerLetters[i] = c]
  ELSE c

\* str.upper()
Upper(s) == [ i \in DOMAIN s |-> UpperChar(s[i]) ]

\* the literal lit is found in text at position p (compared as re.IGNORECASE
\* compares ASCII letters when ci is TRUE)
LitAt(text, p, lit, ci) ==
  /\ p >= 1
  /\ p + Len(lit) - 1 <= Len(text)
  /\ \A k \in 1..Len(lit) :
       IF ci THEN UpperChar(text[p + k - 1]) = UpperChar(lit[k])
             ELSE text[p + k - 1] = lit[k]

\* Python's  sub in text
Contains(text, sub) == \E p \in 1..(Len(text) + 1) : LitAt(text, p, sub, FALSE)

\* the character classes of the patterns of _extract_save_id
InClass(cls, c) ==
  CASE cls = "space"      -> IsSpace(c)                                \* \s
    [] cls = "value1"     -> ~(IsQuote(c) \/ c = ">" \/ IsSpace(c))    \* [^"'>\s]
    [] cls = "value2"     -> ~(c = "&" \/ IsSpace(c))                  \* [^&\s]
    [] cls = "value3"     -> c # "\""                                  \* [^"]
    [] cls = "notalnum"   -> ~IsAlnum(c)                               \* [^a-zA-Z0-9]
    [] cls = "ident"      -> IsAlnum(c) \/ c = "-"                     \* [a-zA-Z0-9\-]

\* the end (exclusive) of the longest run of characters of class cls that
\* starts at position p: a greedy  [..]*  of the re module
RECURSIVE RunEnd(_, _, _)
RunEnd(text, p, cls) ==
  IF p <= Len(text) /\ InClass(cls, text[p]) THEN RunEnd(text, p + 1, cls) ELSE p

\* str.strip()
RECURSIVE LStrip(_)
LStrip(s) == IF s # << >> /\ IsSpace(Head(s)) THEN LStrip(Tail(s)) ELSE s

RECURSIVE RStrip(_)
RStrip(s) ==
  IF s # << >> /\ IsSpace(s[Len(s)]) THEN RStrip(SubSeq(s, 1, Len(s) - 1)) ELSE s

Strip(s) == RStrip(LStrip(s))

\* str(n) for an integer n
RECURSIVE NatStr(_)
NatStr(n) ==
  IF n < 10 THEN << DigitChars[n + 1] >>
  ELSE NatStr(n \div 10) \o << DigitChars[(n % 10) + 1] >>

IntStr(n) == IF n < 0 THEN << "-" >> \o NatStr(0 - n) ELSE NatStr(n)

DigitVal(c) == (CHOOSE i \in DOMAIN DigitChars : DigitChars[i] = c) - 1

\* the value of a string of digits and single underscores between digits
RECURSIVE DigitsVal(_, _)
DigitsVal(s, acc) ==
  IF s = << >> THEN acc
  ELSE IF Head(s) = "_" THEN DigitsVal(Tail(s), acc)
  ELSE DigitsVal(Tail(s), acc * 10 + DigitVal(Head(s)))

\* the body of an integer literal int() accepts: digits, with single
\* underscores only between digits
IsIntBody(s) ==
  /\ s # << >>
  /\ \A i \in DOMAIN s : IsDigit(s[i]) \/ s[i] = "_"
  /\ IsDigit(s[1])
  /\ IsDigit(s[Len(s)])
  /\ \A i \in 1..(Len(s) - 1) : ~(s[i] = "_" /\ s[i + 1] = "_")

\* int(text): Some(n), or None where int() raises ValueError
ParseInt(text) ==
  LET t == Strip(text)
      signed == t # << >> /\ Head(t) \in { "+", "-" }
      body == IF signed THEN Tail(t) ELSE t
  IN  IF ~IsIntBody(body) THEN None
      ELSE IF signed /\ Head(t) = "-" THEN Some(0 - DigitsVal(body, 0))
      ELSE Some(DigitsVal(body, 0))

(***************************************************************************)
(* Program constants.                                                      *)
(***************************************************************************)
\* chunk_size of _submit_form
chunk_size == 50

\* rows[:150] of parse_proxies
RowLimit == 150

(***************************************************************************)
(* _extract_save_id: the four patterns, each tried with re.search and      *)
(* re.IGNORECASE, and the synthetic identifier.                            *)
(***************************************************************************)
\* position p if text[p] is a quote (the optional ["']? takes it), else p
SkipQuote(text, p) == IF p <= Len(text) /\ IsQuote(text[p]) THEN p + 1 ELSE p

\* faulty variant of group 1: [..]* in place of [..]+, the empty group allowed
GroupOrEmpty(text, e, f) == Some(SubSeq(text, e, f - 1))

\* group 1 when it spans positions e to f - 1: a  [..]+  needs one character
Group(text, e, f) == IF f > e THEN Some(SubSeq(text, e, f - 1)) ELSE None

\* ([..]+) of class cls, greedy, matched at position e
Capture(text, e, cls) == Group(text, e, RunEnd(text, e, cls))

\* :\s*["']?([^"'>\s]+) matched at position c
Value1(text, c) ==
  IF c <= Len(text) /\ text[c] = ":"
  THEN Capture(text, SkipQuote(text, RunEnd(text, c + 1, "space")), "value1")
  ELSE None

\* r'save_id["\']?\s*:\s*["\']?([^"\'>\s]+)' matched at position p:
\* Some(group 1) or None
Match1(text, p) ==
  IF LitAt(text, p, <<"s","a","v","e","_","i","d">>, TRUE)
  THEN Value1(text, RunEnd(text, SkipQuote(text, p + 7), "space"))
  ELSE None

\* r"save_id=([^&\s]+)" matched at position p
Match2(text, p) ==
  IF LitAt(text, p, <<"s","a","v","e","_","i","d","=">>, TRUE)
  THEN Capture(text, p + 8, "value2")
  ELSE None

\* ([^"]+)" with the group from position e to f - 1: the closing quote must
\* follow the greedy group
Quoted3(text, e, f) == IF f <= Len(text) THEN Group(text, e, f) ELSE None

\* "([^"]+)" matched at position a
Value3(text, a) ==
  IF a <= Len(text) /\ text[a] = "\""
  THEN Quoted3(text, a + 1, RunEnd(text, a + 1, "value3"))
  ELSE None

\* r'"save_id":\s*"([^"]+)"' matched at position p
Match3(text, p) ==
  IF LitAt(text, p, <<"\"","s","a","v","e","_","i","d","\"",":">>, TRUE)
  THEN Value3(text, RunEnd(text, p + 10, "space"))
  ELSE None

\* the last hyphen at or after position a: 0 when there is none
LastHyphen(text, a) ==
  IF \E q \in a..Len(text) : text[q] = "-"
  THEN CHOOSE q \in a..Len(text) : text[q] = "-" /\ \A r \in (q + 1)..Len(text) : text[r] # "-"
  ELSE 0

\* the group of pattern 4 when [^a-zA-Z0-9]* ran to the end of the text: the
\* greedy run gives characters back, last first, until the group can start,
\* which is at its last hyphen q
GivenBack(text, q) == IF q = 0 THEN None ELSE Capture(text, q, "ident")

\* [^a-zA-Z0-9]*([a-zA-Z0-9\-]+) with the greedy run from a to b - 1
Ident4(text, a, b) ==
  IF b <= Len(text) THEN Capture(text, b, "ident") ELSE GivenBack(text, LastHyphen(text, a))

\* r"Success[^a-zA-Z0-9]*([a-zA-Z0-9\-]+)" matched at position p
Match4(text, p) ==
  IF LitAt(text, p, <<"S","u","c","c","e","s","s">>, TRUE)
  THEN Ident4(text, p + 7, RunEnd(text, p + 7, "notalnum"))
  ELSE None

MatchAt(n, text, p) ==
  CASE n = 1 -> Match1(text, p)
    [] n = 2 -> Match2(text, p)
    [] n = 3 -> Match3(text, p)
    [] n = 4 -> Match4(text, p)

\* the leftmost of the positions hits at which pattern n matches
Leftmost(n, text, hits) ==
  IF hits = {} THEN None
  ELSE MatchAt(n, text, CHOOSE p \in hits : \A q \in hits : p <= q)

\* re.search(patterns[n], text, re.IGNORECASE): group 1 of the leftmost
\* match, as Some(..), or None
Search(n, text) ==
  Leftmost(n, text, { p \in 1..(Len(text) + 1) : MatchAt(n, text, p) # None })

\* the first of the outcomes that is a match, None when none is
FirstSome(outcomes) ==
  IF \E i \in DOMAIN outcomes : outcomes[i] # None
  THEN outcomes[CHOOSE i \in DOMAIN outcomes :
                  outcomes[i] # None /\ \A j \in 1..(i - 1) : outcomes[j] = None]
  ELSE None

\* the loop over the patterns: Some(match.group(1)) of the first pattern
\* that matches, None when the loop ends without a match
PatternLoop(response_text) ==
  FirstSome([ n \in 1..4 |-> Search(n, response_text) ])

\* faulty variant of the fallback identifier: the chunk index left out
SyntheticIdNoIndex(t, chunk_index) ==
  <<"u","p","l","o","a","d","_">> \o IntStr(t)

\* f"upload_{int(time.time())}_{chunk_index}"
SyntheticId(t, chunk_index) ==
  <<"u","p","l","o","a","d","_">> \o IntStr(t) \o <<"_">> \o IntStr(chunk_index)

(***************************************************************************)
(* _extract_protocols and _parse_proxy_row.  A row is the sequence of its  *)
(* td cells; a cell is its first text node (None when it has none) and     *)
(* its markup, which is what Selector.get() returns.                       *)
(***************************************************************************)
Cell(text, html) == [ text |-> text, html |-> html ]

\* faulty variant of _extract_protocols: the list returned as built, without
\* the default
ProtocolsNoDefault(protocol_cell) ==
  IF protocol_cell = None \/ protocol_cell[1].html = << >> THEN << "HTTP" >>
  ELSE LET cell_text == Upper(protocol_cell[1].html)
       IN  (IF Contains(cell_text, <<"H","T","T","P","S">>) THEN << "HTTP", "HTTPS" >>
            ELSE IF Contains(cell_text, <<"H","T","T","P">>) THEN << "HTTP" >>
            ELSE << >>)
           \o (IF Contains(cell_text, <<"S","O","C","K","S","5">>) THEN << "SOCKS5" >>
               ELSE IF Contains(cell_text, <<"S","O","C","K","S","4">>) THEN << "SOCKS4" >>
               ELSE IF Contains(cell_text, <<"S","O","C","K","S">>) THEN << "SOCKS4", "SOCKS5" >>
               ELSE << >>)

\* _extract_protocols(protocol_cell); protocol_cell is None or Some(cell).
\* A Selector is falsy when its get() is empty.
_extract_protocols(protocol_cell) ==
  IF protocol_cell = None \/ protocol_cell[1].html = << >> THEN << "HTTP" >>
  ELSE LET cell_text == Upper(protocol_cell[1].html)
           http == IF Contains(cell_text, <<"H","T","T","P","S">>) THEN << "HTTP", "HTTPS" >>
                   ELSE IF Contains(cell_text, <<"H","T","T","P">>) THEN << "HTTP" >>
                   ELSE << >>
           socks == IF Contains(cell_text, <<"S","O","C","K","S","5">>) THEN << "SOCKS5" >>
                    ELSE IF Contains(cell_text, <<"S","O","C","K","S","4">>) THEN << "SOCKS4" >>
                    ELSE IF Contains(cell_text, <<"S","O","C","K","S">>) THEN << "SOCKS4", "SOCKS5" >>
                    ELSE << >>
           protocols == http \o socks
       IN  IF protocols # << >> THEN protocols ELSE << "HTTP" >>

\* _parse_proxy_row(row, row_num): Some(proxy) or None
_parse_proxy_row(row) ==
  IF Len(row) < 2 THEN None
  ELSE IF row[1].text = None \/ row[1].text = Some(<< >>) THEN None
  ELSE IF row[2].text = None \/ row[2].text = Some(<< >>) THEN None
  ELSE IF ParseInt(row[2].text[1]) = None THEN None
  ELSE Some([ ip |-> Strip(row[1].text[1]),
              port |-> ParseInt(row[2].text[1])[1],
              protocols |-> _extract_protocols(IF Len(row) > 2 THEN Some(row[3]) ELSE None) ])

IsSome(opt) == opt # None

\* the proxies parse_proxies appends for the rows it examines, in row order
ParseRows(rows) ==
  LET kept == SelectSeq([ i \in DOMAIN rows |-> _parse_proxy_row(rows[i]) ], IsSome)
  IN  [ i \in DOMAIN kept |-> kept[i][1] ]

\* faulty variant of the slice: every row is examined
AllRows(rows) == rows

\* rows[:150]
FirstRows(rows) == SubSeq(rows, 1, IF Len(rows) < RowLimit THEN Len(rows) ELSE RowLimit)

\* f"{proxy['ip']}:{proxy['port']}"
ProxyString(proxy) == proxy.ip \o <<":">> \o IntStr(proxy.port)

\* [f"{proxy['ip']}:{proxy['port']}" for proxy in self.proxies]
ProxyStrings(ps) == [ i \in DOMAIN ps |-> ProxyString(ps[i]) ]

\* faulty variant of the chunk count: the last, partial chunk left out
RangeLenFloor(n, step) == n \div step

\* len(range(0, n, step))
RangeLen(n, step) == IF n <= 0 THEN 0 ELSE ((n - 1) \div step) + 1

\* faulty variant of the slice: the last member of every chunk left out
SliceShort(strs, k) ==
  LET i == (k - 1) * chunk_size
      j == IF i + chunk_size - 1 < Len(strs) THEN i + chunk_size - 1 ELSE Len(strs)
  IN  SubSeq(strs, i + 1, j)

\* proxy_strings[i : i + chunk_size] for the k-th i of range(0, len, chunk_size)
Slice(strs, k) ==
  LET i == (k - 1) * chunk_size
      j == IF i + chunk_size < Len(strs) THEN i + chunk_size ELSE Len(strs)
  IN  SubSeq(strs, i + 1, j)

\* chunks of _submit_form
Chunks(strs) == [ k \in 1..RangeLen(Len(strs), chunk_size) |-> Slice(strs, k) ]

\* faulty variant of expected_chunks: rounded down
ExpectedChunksFloor(n) == n \div 50

\* expected_chunks of _parse_upload_response
ExpectedChunks(n) == (n + 49) \div 50

\* "\n".join(chunk), the proxies field of the form
RECURSIVE JoinLines(_)
JoinLines(chunk) ==
  IF chunk = << >> THEN << >>
  ELSE IF Len(chunk) = 1 THEN chunk[1]
  ELSE chunk[1] \o << "\n" >> \o JoinLines(Tail(chunk))

\* f"{n:02d}"
TwoDigits(n) == IF n < 10 THEN << "0" >> \o NatStr(n) ELSE NatStr(n)

\* time_str of _save_execution_time
TimeStr(elapsed) ==
  TwoDigits(elapsed \div 3600) \o << ":" >> \o TwoDigits((elapsed % 3600) \div 60)
    \o << ":" >> \o TwoDigits(elapsed % 60)

(***************************************************************************)
(* The inputs: credential tokens, source pages and upload responses.       *)
(***************************************************************************)
\* the token argument and os.getenv("PERSONAL_TOKEN"): absent, empty or set
Tokens == { None, Some(<< >>), Some(<<"t","k">>) }

Td(inner) == <<"<","t","d",">">> \o inner \o <<"<","/","t","d",">">>

\* the address of the i-th row
Ip(i) == <<"1","0",".","0",".","0",".">> \o NatStr(i)

TextCell(text) == Cell(Some(text), Td(text))

\* the i-th table row of a page, of one of the shapes a listing row takes
Row(i, kind) ==
  CASE kind = "https"   -> << TextCell(Ip(i)), TextCell(<<"8","0","8","0">>),
                              TextCell(<<"H","T","T","P","S">>) >>
    [] kind = "socks"   -> << TextCell(<<" ">> \o Ip(i) \o <<" ">>),
                              TextCell(<<" ","1","0","8","0","\n">>),
                              TextCell(<<"s","o","c","k","s","5">>) >>
    [] kind = "bare"    -> << TextCell(Ip(i)), TextCell(<<"3","1","2","8">>) >>
    [] kind = "short"   -> << TextCell(Ip(i)) >>
    [] kind = "noip"    -> << Cell(None, Td(<< >>)), TextCell(<<"8","0">>) >>
    [] kind = "noport"  -> << TextCell(Ip(i)), Cell(None, Td(<< >>)) >>
    [] kind = "badport" -> << TextCell(Ip(i)), TextCell(<<"a","b","c">>) >>
    [] kind = "zero"    -> << TextCell(Ip(i)), TextCell(<<"0">>) >>
    [] kind = "big"     -> << TextCell(Ip(i)), TextCell(<<"7","0","0","0","0">>),
                              TextCell(<<"e","l","i","t","e">>) >>

\* the row shapes of a page repeat with the period of its template: rows
\* the code accepts, rows it rejects, and the two alternating
Templates ==
  { << "https", "socks", "bare", "zero", "big" >>,
    << "short", "noip", "noport", "badport" >>,
    << "https", "badport" >> }

Rows(n, tmpl) == [ i \in 1..n |-> Row(i, tmpl[((i - 1) % Len(tmpl)) + 1]) ]

\* the row counts of the pages: the multiples of chunk_size, the counts that
\* leave a last chunk under capacity, and the longest page
RowCounts == { n \in 0..MaxRows : n % chunk_size \in { 0, 20 } } \cup { MaxRows }

\* the listing pages, each named by its row count, its row template and the
\* shape of its table: with a tbody, or plain
Listings ==
  { [ rows |-> n, tmpl |-> tmpl, shape |-> "tbody" ] : n \in RowCounts, tmpl \in Templates }
  \cup
  { [ rows |-> n, tmpl |-> tmpl, shape |-> "plain" ] :
      n \in { 1, chunk_size + 20 }, tmpl \in Templates }

\* a page is what its two selectors return: "table tbody tr" and
\* "table tr:not(:first-child)"
PageOf(d) ==
  IF d.shape = "tbody"
  THEN [ tbody_tr |-> Rows(d.rows, d.tmpl), tr_not_first |-> << >> ]
  ELSE [ tbody_tr |-> << >>, tr_not_first |-> Rows(d.rows, d.tmpl) ]

Pages == { PageOf(d) : d \in Listings }

\* the bodies the upload endpoint answers a POST with
UploadResponses ==
  { <<"{","\"","s","a","v","e","_","i","d","\"",":"," ","\"","a","b","\"","}">>,
    <<"s","a","v","e","_","i","d","=","c","d","&","o","k","=","1">>,
    <<"S","u","c","c","e","s","s",":"," ","e","f">>,
    <<"e","r","r","o","r"," ","5","0","0">> }

\* the most fragments a text given to a method applied on its own is made of
MaxFragments == 2

\* the pieces the text of a protocol cell is made of
ProtocolFragments ==
  { <<"H","T","T","P">>, <<"H","T","T","P","S">>, <<"h","t","t","p","s">>,
    <<"S","O","C","K","S">>, <<"S","O","C","K","S","4">>, <<"s","o","c","k","s","5">>,
    <<"e","l","i","t","e">>, <<","," ">> }

\* the pieces the body of an upload response is made of
ResponseFragments ==
  { <<"s","a","v","e","_","i","d">>, <<"S","u","c","c","e","s","s">>, <<"a","b">>,
    <<"\"">>, <<":">>, <<"=">>, <<" ">>, <<"-">>, <<"&">> }

\* the texts of n fragments
RECURSIVE Texts(_, _)
Texts(fragments, n) ==
  IF n = 0 THEN { << >> }
  ELSE { t \o f : t \in Texts(fragments, n - 1), f \in fragments }

\* the texts of at most n fragments, the empty text included
TextsUpTo(fragments, n) == UNION { Texts(fragments, k) : k \in 0..n }

\* the protocol cells: absent, without text, or with a text
ProtocolCells ==
  { None, Some(Cell(None, Td(<< >>))) }
  \cup { Some(TextCell(text)) : text \in TextsUpTo(ProtocolFragments, MaxFragments) }

ProbeTexts == TextsUpTo(ResponseFragments, MaxFragments)

(***************************************************************************)
(* The state of a run.                                                     *)
(***************************************************************************)
VARIABLES
  pc,             \* "new": not built; "failed": __init__ raised; "open"
  personal_token, \* self.personal_token
  start_time,     \* self.start_time
  now,            \* the clock, time.time(), in whole seconds
  proxies,        \* self.proxies
  results,        \* self.results: save_id -> chunk_proxies
  source,         \* the GET of the listing page: "unsent", "inflight", "answered"
  form,           \* the GET of the upload endpoint: "unsent", "inflight", "answered"
  gen,            \* the suspended generator of _submit_form: None, or Some of
                  \* the chunks it has yet to yield and the index of the next
  inflight,       \* the POSTs in flight: chunk_index -> request
  log,            \* what the logger has recorded
  files,          \* proxies.json, results.json, time.txt: None or Some(what it holds)
  writes,         \* the completed writes of each file
  listing,        \* the listing page the source answered with: None, or Some of
                  \* its row count, row template and table shape
  call,           \* a method applied on its own: None, or Some of its name and argument
  returned        \* what that call returned: None, or Some(value)

vars ==
  << pc, personal_token, start_time, now, proxies, results, source, form,
     gen, inflight, log, files, writes, listing, call, returned >>

LogEntry(level, event, chunk_index, save_id) ==
  [ level |-> level, event |-> event, chunk_index |-> chunk_index, save_id |-> save_id ]

\* a log entry that names no chunk
Note(level, event) == LogEntry(level, event, -1, << >>)

Init ==
  /\ pc = "new"
  /\ personal_token = None
  /\ start_time = 0
  /\ now = 0
  /\ proxies = << >>
  /\ results = << >>
  /\ source = "unsent"
  /\ form = "unsent"
  /\ gen = None
  /\ inflight = << >>
  /\ log = << >>
  /\ files = [ proxies_json |-> None, results_json |-> None, time_txt |-> None ]
  /\ writes = [ proxies_json |-> 0, results_json |-> 0, time_txt |-> 0 ]
  /\ listing = None
  /\ call = None
  /\ returned = None

\* faulty variant of the truthiness test: only None is falsy
NotNone(opt) == opt # None

\* Python's truthiness of an optional string: None and "" are falsy
Truthy(opt) == opt # None /\ opt # Some(<< >>)

\* open(name, "w") and the write that follows: the file holds content when
\* the write succeeds (ok) and is left as it was when it raises
Written(fs, name, content, ok) == IF ok THEN [ fs EXCEPT ![name] = Some(content) ] ELSE fs

Counted(ws, name, ok) == IF ok THEN [ ws EXCEPT ![name] = @ + 1 ] ELSE ws

\* what json.dump(self.proxies, f) leaves in proxies.json, kept as the number
\* of records in it
DumpedProxies(ps) == Len(ps)

\* what json.dump(self.results, f) leaves in results.json, kept as its keys,
\* each with the number of strings under it
DumpedResults(res) == [ k \in DOMAIN res |-> Len(res[k]) ]

\* the entry the except branch of a write logs
Failure(event, ok) == IF ok THEN << >> ELSE << Note("error", event) >>

\* faulty variant of the assignment: an existing key keeps its value
PutIfAbsent(res, save_id, chunk_proxies) ==
  [ k \in (DOMAIN res) \cup { save_id } |-> IF k \in DOMAIN res THEN res[k] ELSE chunk_proxies ]

\* self.results[save_id] = chunk_proxies
Put(res, save_id, chunk_proxies) ==
  [ k \in (DOMAIN res) \cup { save_id } |-> IF k = save_id THEN chunk_proxies ELSE res[k] ]

\* the FormRequest of one chunk: its form data and its meta
Request(token, chunk_index, chunk) ==
  [ personal_token |-> token, chunk_index |-> chunk_index, chunk_proxies |-> chunk ]

\* the form data on the wire
FormData(request) ==
  [ personal_token |-> request.personal_token, proxies |-> JoinLines(request.chunk_proxies) ]

\* the requests in flight, one more
Sent(reqs, request) ==
  [ k \in (DOMAIN reqs) \cup { request.chunk_index } |->
      IF k = request.chunk_index THEN request ELSE reqs[k] ]

\* the requests in flight, the answered one removed
Answered(reqs, chunk_index) == [ k \in (DOMAIN reqs) \ { chunk_index } |-> reqs[k] ]

(***************************************************************************)
(* __init__: the token argument, else the environment's; no token raises   *)
(* ValueError before any field but personal_token is set.                  *)
(***************************************************************************)
Construct ==
  /\ pc = "new"
  /\ \E token \in Tokens, env \in Tokens :
       LET chosen == IF Truthy(token) THEN token ELSE env
       IN  /\ personal_token' = chosen
           /\ pc' = IF Truthy(chosen) THEN "open" ELSE "failed"
  /\ start_time' = now
  /\ UNCHANGED << now, proxies, results, source, form, gen, inflight, log, files, writes,
                  listing, call, returned >>

(***************************************************************************)
(* start_requests: the GET of the listing page.                            *)
(***************************************************************************)
StartRequests ==
  /\ pc = "open"
  /\ source = "unsent"
  /\ source' = "inflight"
  /\ UNCHANGED << pc, personal_token, start_time, now, proxies, results, form, gen,
                  inflight, log, files, writes, listing, call, returned >>

\* faulty variant of _save_proxies: nothing written, nothing reported
SaveSkipped(ps, ok) == [ files |-> files, writes |-> writes, log |-> << >> ]

\* _save_proxies with self.proxies = ps: the file, the count of its writes
\* and the log entry of the except branch
_save_proxies(ps, ok) ==
  [ files |-> Written(files, "proxies_json", DumpedProxies(ps), ok),
    writes |-> Counted(writes, "proxies_json", ok),
    log |-> Failure("save_proxies", ok) ]

\* rows of parse_proxies: the first selector's rows, else the second's
SelectedRows(page) ==
  IF page.tbody_tr # << >> THEN page.tbody_tr ELSE page.tr_not_first

\* faulty variant of the test: the rows are taken to be there
TableAssumed(rows) == TRUE

\* the test of parse_proxies on the rows selected: no rows, no table
TableFound(rows) == rows # << >>

\* whether parse_proxies finds a table in each listing page
Found == [ d \in Listings |-> TableFound(SelectedRows(PageOf(d))) ]

\* the proxies the loop of parse_proxies extracts from each listing page
Extracted == [ d \in Listings |-> ParseRows(FirstRows(SelectedRows(PageOf(d)))) ]

\* faulty variant of _upload_proxies: the GET issued without the guard
UploadAlways(ps) == TRUE

\* the guard of _upload_proxies: the GET of the upload endpoint is issued
\* only when there are proxies
UploadIssued(ps) == ps # << >>

(***************************************************************************)
(* parse_proxies, the callback of the listing page, with _save_proxies     *)
(* and _upload_proxies, which it runs before it returns.                   *)
(***************************************************************************)
ParseProxies ==
  /\ pc = "open"
  /\ source = "inflight"
  /\ source' = "answered"
  /\ \E page \in Listings, saved \in BOOLEAN :
       LET parsed == proxies \o Extracted[page]
       IN  /\ listing' = Some(page)
           /\ IF ~Found[page]
              THEN /\ saved
                   /\ log' = Append(log, Note("error", "no_table"))
                   /\ UNCHANGED << proxies, files, writes, form >>
              ELSE /\ proxies' = parsed
                   /\ files' = _save_proxies(parsed, saved).files
                   /\ writes' = _save_proxies(parsed, saved).writes
                   /\ log' = log \o _save_proxies(parsed, saved).log
                                 \o (IF UploadIssued(parsed) THEN << >>
                                     ELSE << Note("error", "no_proxies") >>)
                   /\ form' = IF UploadIssued(parsed) THEN "inflight" ELSE form
  /\ UNCHANGED << pc, personal_token, start_time, now, results, gen, inflight, call, returned >>

\* faulty variant of _submit_form: the chunks are built and the first POST
\* is sent as soon as the GET of the upload endpoint is issued, its
\* response not awaited
SubmitFormUnawaited ==
  /\ pc = "open"
  /\ form = "inflight"
  /\ gen = None
  /\ DOMAIN inflight = {}
  /\ DOMAIN results = {}
  /\ LET chunks == Chunks(ProxyStrings(proxies))
     IN  /\ inflight' = Sent(inflight, Request(personal_token[1], 0, chunks[1]))
         /\ gen' = IF Len(chunks) > 1
                   THEN Some([ chunks |-> Tail(chunks), chunk_index |-> 1 ])
                   ELSE None
  /\ UNCHANGED << pc, personal_token, start_time, now, proxies, results, source, form, log,
                  files, writes, listing, call, returned >>

(***************************************************************************)
(* _submit_form, the callback of the GET of the upload endpoint: a         *)
(* generator.  It builds the chunks and yields the first FormRequest when  *)
(* it is started, and one more each time the engine resumes it; the engine *)
(* may run other callbacks in between.                                     *)
(***************************************************************************)
SubmitForm ==
  /\ pc = "open"
  /\ form = "inflight"
  /\ form' = "answered"
  /\ LET chunks == Chunks(ProxyStrings(proxies))
     IN  IF chunks = << >>
         THEN UNCHANGED << gen, inflight >>
         ELSE /\ inflight' = Sent(inflight, Request(personal_token[1], 0, chunks[1]))
              /\ gen' = IF Len(chunks) > 1
                        THEN Some([ chunks |-> Tail(chunks), chunk_index |-> 1 ])
                        ELSE None
  /\ UNCHANGED << pc, personal_token, start_time, now, proxies, results, source, log,
                  files, writes, listing, call, returned >>

\* faulty variant of the resumption of _submit_form: the next chunk is held
\* back until no POST is in flight
SubmitFormNextWaits ==
  /\ gen # None
  /\ DOMAIN inflight = {}
  /\ LET frame == gen[1]
         k == frame.chunk_index
     IN  /\ inflight' = Sent(inflight, Request(personal_token[1], k, Head(frame.chunks)))
         /\ gen' = IF Len(frame.chunks) > 1
                   THEN Some([ chunks |-> Tail(frame.chunks), chunk_index |-> k + 1 ])
                   ELSE None
  /\ UNCHANGED << pc, personal_token, start_time, now, proxies, results, source, form,
                  log, files, writes, listing, call, returned >>

\* _submit_form resumed: the next FormRequest of the loop
SubmitFormNext ==
  /\ gen # None
  /\ LET frame == gen[1]
         k == frame.chunk_index
     IN  /\ inflight' = Sent(inflight, Request(personal_token[1], k, Head(frame.chunks)))
         /\ gen' = IF Len(frame.chunks) > 1
                   THEN Some([ chunks |-> Tail(frame.chunks), chunk_index |-> k + 1 ])
                   ELSE None
  /\ UNCHANGED << pc, personal_token, start_time, now, proxies, results, source, form,
                  log, files, writes, listing, call, returned >>

\* the outcome of the pattern loop on each response body
Matched == [ text \in UploadResponses \cup ProbeTexts |-> PatternLoop(text) ]

\* _extract_save_id(response_text, chunk_index), the clock reading t
_extract_save_id(response_text, chunk_index, t) ==
  LET found == Matched[response_text]
  IN  IF found # None THEN found[1] ELSE SyntheticId(t, chunk_index)

\* the responses for which _extract_save_id reads the clock
Fallback == [ text \in UploadResponses \cup ProbeTexts |-> Matched[text] = None ]

\* faulty variant of the completion test: strictly more entries than chunks
CompleteStrict(res, ps) == Cardinality(DOMAIN res) > ExpectedChunks(Len(ps))

\* the completion test of _parse_upload_response
Complete(res, ps) == Cardinality(DOMAIN res) >= ExpectedChunks(Len(ps))

\* faulty variant of _finalize_spider: a failed write of results.json ends it,
\* time.txt is not attempted
FinalizeStops(res, t2, ok1, ok2) ==
  /\ now' = t2
  /\ files' = IF ok1
              THEN Written(Written(files, "results_json", DumpedResults(res), ok1),
                           "time_txt", TimeStr(t2 - start_time), ok2)
              ELSE files
  /\ writes' = IF ok1
               THEN Counted(Counted(writes, "results_json", ok1), "time_txt", ok2)
               ELSE writes

(***************************************************************************)
(* _finalize_spider and _save_execution_time, run with the results res:    *)
(* ok1 and ok2 say whether the writes of results.json and time.txt         *)
(* succeed, t2 is the clock reading of the elapsed time.                   *)
(***************************************************************************)
_finalize_spider(res, t2, ok1, ok2) ==
  /\ now' = t2
  /\ files' = Written(Written(files, "results_json", DumpedResults(res), ok1),
                      "time_txt", TimeStr(t2 - start_time), ok2)
  /\ writes' = Counted(Counted(writes, "results_json", ok1), "time_txt", ok2)

\* what _finalize_spider and _save_execution_time log
FinalizeLog(ok1, ok2) ==
  Failure("save_results", ok1) \o Failure("save_time", ok2) \o << Note("info", "completed") >>

\* what _extract_save_id and _parse_upload_response log for one response
UploadLog(chunk_index, save_id, fallback) ==
  (IF fallback THEN << LogEntry("warning", "fallback", chunk_index, save_id) >> ELSE << >>)
    \o << LogEntry("info", "uploaded", chunk_index, save_id) >>

\* the end of _parse_upload_response: the completion test on the results
\* stored, and the finalization when it passes; t1 is the clock when the
\* test is made
CheckComplete(stored, entries, t1) ==
  IF Complete(stored, proxies)
  THEN \E t2 \in t1..MaxClock, ok1 \in BOOLEAN, ok2 \in BOOLEAN :
         /\ _finalize_spider(stored, t2, ok1, ok2)
         /\ log' = log \o entries \o FinalizeLog(ok1, ok2)
  ELSE /\ now' = t1
       /\ log' = log \o entries
       /\ UNCHANGED << files, writes >>

\* _parse_upload_response from the assignment to self.results on
Store(chunk_index, chunk_proxies, save_id, fallback, t1) ==
  /\ results' = Put(results, save_id, chunk_proxies)
  /\ CheckComplete(Put(results, save_id, chunk_proxies),
                   UploadLog(chunk_index, save_id, fallback), t1)

(***************************************************************************)
(* _parse_upload_response, the callback of one POST, with                  *)
(* _extract_save_id and, when the completion test passes,                  *)
(* _finalize_spider and _save_execution_time.  t1 is the clock reading of  *)
(* the synthetic identifier; the clock is read only when no pattern        *)
(* matches.                                                                *)
(***************************************************************************)
ParseUploadResponse ==
  /\ pc = "open"
  /\ \E chunk_index \in DOMAIN inflight, text \in UploadResponses :
       \E t1 \in (IF Fallback[text] THEN now..MaxClock ELSE { now }) :
         /\ Store(chunk_index, inflight[chunk_index].chunk_proxies,
                  _extract_save_id(text, chunk_index, t1), Fallback[text], t1)
         /\ inflight' = Answered(inflight, chunk_index)
  /\ UNCHANGED << pc, personal_token, start_time, proxies, source, form, gen,
                  listing, call, returned >>

Next ==
  \/ Construct
  \/ StartRequests
  \/ ParseProxies
  \/ SubmitForm
  \/ SubmitFormNext
  \/ ParseUploadResponse

Spec == Init /\ [][Next]_vars

(***************************************************************************)
(* _submit_form on any record sequence: the callback is started in a       *)
(* state whose self.proxies is any list the extraction builds from the     *)
(* rows of a page, not cut at RowLimit, the empty list included.           *)
(***************************************************************************)
BatchInputs == { ParseRows(Rows(n, tmpl)) : n \in 0..MaxRows, tmpl \in Templates }

BatchInit ==
  /\ pc = "open"
  /\ personal_token = Some(<<"t","k">>)
  /\ start_time = 0
  /\ now = 0
  /\ proxies \in BatchInputs
  /\ results = << >>
  /\ source = "answered"
  /\ form = "inflight"
  /\ gen = None
  /\ inflight = << >>
  /\ log = << >>
  /\ files = [ proxies_json |-> None, results_json |-> None, time_txt |-> None ]
  /\ writes = [ proxies_json |-> 0, results_json |-> 0, time_txt |-> 0 ]
  /\ listing = None
  /\ call = None
  /\ returned = None

BatchNext ==
  \/ SubmitForm
  \/ SubmitFormNext

BatchSpec == BatchInit /\ [][BatchNext]_vars

(***************************************************************************)
(* _extract_protocols and _extract_save_id applied on their own, to any    *)
(* argument built of up to MaxFragments fragments: the call is drawn when  *)
(* the state is set up and the method is applied to it once.               *)
(***************************************************************************)
Calls ==
  { [ fn |-> "_extract_protocols", arg |-> cell ] : cell \in ProtocolCells }
  \cup
  { [ fn |-> "_extract_save_id",
      arg |-> [ response_text |-> text, chunk_index |-> k, t |-> t ] ] :
      text \in ProbeTexts, k \in { 0, 2 }, t \in 0..MaxClock }

CallInit ==
  /\ pc = "new"
  /\ personal_token = None
  /\ start_time = 0
  /\ now = 0
  /\ proxies = << >>
  /\ results = << >>
  /\ source = "unsent"
  /\ form = "unsent"
  /\ gen = None
  /\ inflight = << >>
  /\ log = << >>
  /\ files = [ proxies_json |-> None, results_json |-> None, time_txt |-> None ]
  /\ writes = [ proxies_json |-> 0, results_json |-> 0, time_txt |-> 0 ]
  /\ listing = None
  /\ call \in { Some(c) : c \in Calls }
  /\ returned = None

\* _extract_protocols(protocol_cell)
ExtractProtocols ==
  /\ call # None
  /\ returned = None
  /\ call[1].fn = "_extract_protocols"
  /\ returned' = Some(_extract_protocols(call[1].arg))
  /\ UNCHANGED << pc, personal_token, start_time, now, proxies, results, source, form,
                  gen, inflight, log, files, writes, listing, call >>

\* _extract_save_id(response_text, chunk_index), the clock reading t
ExtractSaveId ==
  /\ call # None
  /\ returned = None
  /\ call[1].fn = "_extract_save_id"
  /\ returned' = Some(_extract_save_id(call[1].arg.response_text, call[1].arg.chunk_index,
                                       call[1].arg.t))
  /\ UNCHANGED << pc, personal_token, start_time, now, proxies, results, source, form,
                  gen, inflight, log, files, writes, listing, call >>

CallNext ==
  \/ ExtractProtocols
  \/ ExtractSaveId

CallSpec == CallInit /\ [][CallNext]_vars

(***************************************************************************)
(* What the claims speak of, read off the state.                           *)
(***************************************************************************)
\* the number of records extracted
N == Len(proxies)

\* ceil(n / c), by its definition: the least k with k * c >= n
Ceil(n, c) == CHOOSE k \in 0..n : k * c >= n /\ \A j \in 0..(k - 1) : j * c < n

\* the acknowledgements observed, in the order of their arrival
IsUploaded(entry) == entry.event = "uploaded"

Acks == SelectSeq(log, IsUploaded)

\* the number of times _finalize_spider has run
FinalizeCount == Cardinality({ i \in DOMAIN log : log[i].event = "completed" })

Finalized == FinalizeCount >= 1

Logged(event) == \E i \in DOMAIN log : log[i].event = event

\* the number of times _save_proxies has run, its failures included
SaveAttempts ==
  writes.proxies_json + Cardinality({ i \in DOMAIN log : log[i].event = "save_proxies" })

\* a request has been issued to the upload endpoint
UploadStarted == form # "unsent" \/ gen # None \/ DOMAIN inflight # {}

\* parse_proxies has returned without asking for an upload
Aborted == source = "answered" /\ ~UploadStarted

\* every request issued has been answered and no callback is left to run
AllAnswered ==
  /\ source = "answered"
  /\ form = "answered"
  /\ gen = None
  /\ DOMAIN inflight = {}

\* the run has nothing left to do: it was aborted, or everything it issued
\* has been answered
RunOver == pc = "open" /\ (Aborted \/ AllAnswered)

\* the address:port strings of the batch of index k (from 0), written out
\* from the records
BatchOf(k) ==
  [ j \in 1..(IF N - k * chunk_size < chunk_size THEN N - k * chunk_size ELSE chunk_size) |->
      proxies[k * chunk_size + j].ip \o <<":">> \o IntStr(proxies[k * chunk_size + j].port) ]

DistinctIds ==
  \A i, j \in DOMAIN Acks : i # j => Acks[i].save_id # Acks[j].save_id

\* s1 \o s2 \o ... of a sequence of sequences
RECURSIVE Flatten(_)
Flatten(ss) == IF ss = << >> THEN << >> ELSE Head(ss) \o Flatten(Tail(ss))

\* the identifier under which the batch of index k was acknowledged
IdOfBatch(k) == Acks[CHOOSE i \in DOMAIN Acks : Acks[i].chunk_index = k].save_id

(***************************************************************************)
(* _parse_upload_response on any sequence of observations.  Every POST of  *)
(* the run is in flight; the handler is called with the response of any    *)
(* of them, and, once the completion test has passed, may be called again  *)
(* with a response for a chunk it has already handled: a late or a         *)
(* duplicate arrival.  The handler is the same code in both cases.         *)
(***************************************************************************)
MaxLate == 1

TrackerInputs ==
  { ParseRows(Rows(n, tmpl)) : n \in { 20, chunk_size + 20 }, tmpl \in Templates }

\* the requests _submit_form has yielded when it has run to its end
AllSent(token, chunks) ==
  [ k \in 0..(Len(chunks) - 1) |-> Request(token, k, chunks[k + 1]) ]

TrackerInit ==
  /\ pc = "open"
  /\ personal_token = Some(<<"t","k">>)
  /\ start_time = 0
  /\ now = 0
  /\ proxies \in TrackerInputs
  /\ results = << >>
  /\ source = "answered"
  /\ form = "answered"
  /\ gen = None
  /\ inflight = AllSent(<<"t","k">>, Chunks(ProxyStrings(proxies)))
  /\ log = << >>
  /\ files = [ proxies_json |-> Some(Len(proxies)), results_json |-> None, time_txt |-> None ]
  /\ writes = [ proxies_json |-> 1, results_json |-> 0, time_txt |-> 0 ]
  /\ listing = None
  /\ call = None
  /\ returned = None

\* _parse_upload_response called with a response for a chunk already handled
LateResponse ==
  /\ pc = "open"
  /\ Complete(results, proxies)
  /\ Len(Acks) < ExpectedChunks(N) + MaxLate
  /\ \E chunk_index \in (0..(ExpectedChunks(N) - 1)) \ DOMAIN inflight, text \in UploadResponses :
       \E t1 \in (IF Fallback[text] THEN now..MaxClock ELSE { now }) :
         Store(chunk_index, Chunks(ProxyStrings(proxies))[chunk_index + 1],
               _extract_save_id(text, chunk_index, t1), Fallback[text], t1)
  /\ UNCHANGED << pc, personal_token, start_time, proxies, source, form, gen, inflight,
                  listing, call, returned >>

TrackerNext ==
  \/ ParseUploadResponse
  \/ LateResponse

TrackerSpec == TrackerInit /\ [][TrackerNext]_vars

(***************************************************************************)
(* C1.  For any sequence of observations handled by                        *)
(* _parse_upload_response, late and duplicate arrivals after the threshold *)
(* included, finalization is triggered at most once: _finalize_spider      *)
(* never runs a second time, and results.json and time.txt, once written,  *)
(* are never written again.                                                *)
(***************************************************************************)
C1_FinalizedAtMostOnce ==
  /\ FinalizeCount <= 1
  /\ writes.results_json <= 1
  /\ writes.time_txt <= 1

(***************************************************************************)
(* C2, as claimed.  In every reachable state finalization has been         *)
(* triggered if and only if len(results) >= ceil(len(proxies) / 50).       *)
(***************************************************************************)
C2_FinalizedIffComplete ==
  Finalized <=> Cardinality(DOMAIN results) >= Ceil(N, chunk_size)

(***************************************************************************)
(* C2, amended.  In every reachable state with at least one extracted      *)
(* record, finalization has been triggered if and only if                  *)
(* len(results) >= ceil(len(proxies) / 50): never while there are fewer    *)
(* entries, and by the insertion that first brings the map to that size.   *)
(***************************************************************************)
C2_FinalizedIffCompleteWithRecords ==
  N >= 1 => (Finalized <=> Cardinality(DOMAIN results) >= Ceil(N, chunk_size))

\* two batches, both acknowledged, the run finalized
C2_Witness ==
  /\ N > chunk_size
  /\ Cardinality(DOMAIN results) = 2
  /\ Finalized

(***************************************************************************)
(* C3.  A run that is over has reached a terminal state: FINALIZED when    *)
(* extraction yielded a record and every request it issued was answered,   *)
(* whatever identifiers the answers carry, and ABORTED otherwise.          *)
(***************************************************************************)
C3_RunOverIsTerminal ==
  RunOver => IF N >= 1 /\ AllAnswered THEN Finalized ELSE Aborted

(***************************************************************************)
(* C4.  When two batches are acknowledged with the same identifier, the    *)
(* ResultMap still holds the address:port strings of the batch observed    *)
(* first.                                                                  *)
(***************************************************************************)
C4_EarlierMappingKept ==
  \A i, j \in DOMAIN Acks :
    (i < j /\ Acks[i].chunk_index # Acks[j].chunk_index /\ Acks[i].save_id = Acks[j].save_id)
      => Range(BatchOf(Acks[i].chunk_index))
           \subseteq UNION { Range(results[key]) : key \in DOMAIN results }

(***************************************************************************)
(* C5.  With N >= 1 records and pairwise distinct identifiers the run      *)
(* finalizes once every batch is acknowledged, and a finalized run has a   *)
(* ResultMap of exactly ceil(N / 50) entries, one per batch, holding that  *)
(* batch's strings: together the N address:port strings of the records,    *)
(* each once; results.json, when its write succeeds, has those entries.    *)
(***************************************************************************)
C5_EveryRecordRecorded ==
  /\ (AllAnswered /\ N >= 1 /\ DistinctIds) => Finalized
  /\ Finalized =>
       /\ Cardinality(DOMAIN results) = Ceil(N, chunk_size)
       /\ \A k \in 0..(Ceil(N, chunk_size) - 1) :
            /\ \E i \in DOMAIN Acks : Acks[i].chunk_index = k
            /\ results[IdOfBatch(k)] = BatchOf(k)
       /\ Len(Flatten([ k \in 1..Ceil(N, chunk_size) |-> results[IdOfBatch(k - 1)] ])) = N
       /\ files.results_json # None =>
            /\ DOMAIN files.results_json[1] = DOMAIN results
            /\ \A key \in DOMAIN results : files.results_json[1][key] = Len(results[key])

\* 120 records in batches of 50, 50 and 20, finalized with three entries
C5_Witness ==
  /\ N = 120
  /\ Finalized
  /\ Cardinality(DOMAIN results) = 3
  /\ { Len(results[key]) : key \in DOMAIN results } = { 50, 20 }

(***************************************************************************)
(* C6.  When rows are found and none yields a record, the run is aborted   *)
(* with the "No proxies to upload" report: no request to the upload        *)
(* endpoint, no results.json, no time.txt, no finalization, ever.          *)
(***************************************************************************)
C6_NothingToUpload ==
  (source = "answered" /\ N = 0 /\ ~Logged("no_table")) =>
    /\ Logged("no_proxies")
    /\ ~UploadStarted
    /\ Aborted
    /\ DOMAIN results = {}
    /\ files.results_json = None
    /\ files.time_txt = None
    /\ ~Finalized

\* rows were found, none was parsable, and the report was logged
C6_Witness ==
  /\ source = "answered"
  /\ N = 0
  /\ Logged("no_proxies")

(***************************************************************************)
(* C7.  A response no pattern matches still gives its batch a non-empty    *)
(* synthetic identifier, entered in the ResultMap, and the batch counts:   *)
(* a run in which no response matches a pattern is finalized once every    *)
(* batch is answered.                                                      *)
(***************************************************************************)
C7_SyntheticIdCounts ==
  /\ \A i \in DOMAIN log :
       log[i].event = "fallback" =>
         /\ log[i].save_id # << >>
         /\ log[i].save_id \in DOMAIN results
  /\ ( /\ AllAnswered
       /\ N >= 1
       /\ \A i \in DOMAIN Acks : \E j \in DOMAIN log :
            /\ log[j].event = "fallback"
            /\ log[j].chunk_index = Acks[i].chunk_index ) => Finalized

\* three batches, none acknowledged with a recognizable identifier
C7_Witness ==
  /\ Len(Acks) = 3
  /\ Cardinality({ i \in DOMAIN log : log[i].event = "fallback" }) = 3
  /\ Finalized

(***************************************************************************)
(* C8.  The final ResultMap does not depend on the order in which the      *)
(* responses arrive: once every batch is answered it is the map that       *)
(* handling the same acknowledgements in batch-index order builds.         *)
(***************************************************************************)
C8_OrderIndependent ==
  AllAnswered =>
    results = [ key \in { Acks[i].save_id : i \in DOMAIN Acks } |->
                  BatchOf(CHOOSE k \in 0..(Len(Acks) - 1) :
                            /\ IdOfBatch(k) = key
                            /\ \A m \in (k + 1)..(Len(Acks) - 1) : IdOfBatch(m) # key) ]

ChunksBuilt ==
  [ k \in 1..Cardinality(DOMAIN inflight) |-> inflight[k - 1].chunk_proxies ]
    \o (IF gen = None THEN << >> ELSE gen[1].chunks)

(***************************************************************************)
(* C10.  The chunks _submit_form builds partition the record sequence in   *)
(* order: each has between 1 and 50 members, only the last may have fewer  *)
(* than 50, their concatenation in index order is the sequence of the      *)
(* records' address:port strings, and the empty sequence gives no chunk.   *)
(***************************************************************************)
C10_ChunksPartition ==
  form = "answered" =>
    /\ DOMAIN inflight = 0..(Cardinality(DOMAIN inflight) - 1)
    /\ \A k \in DOMAIN ChunksBuilt : Len(ChunksBuilt[k]) \in 1..chunk_size
    /\ \A k \in 1..(Len(ChunksBuilt) - 1) : Len(ChunksBuilt[k]) = chunk_size
    /\ Flatten(ChunksBuilt)
         = [ i \in 1..N |-> proxies[i].ip \o <<":">> \o IntStr(proxies[i].port) ]
    /\ N = 0 => ChunksBuilt = << >>

\* 120 records sent as three chunks, the last under capacity
C10_Witness ==
  /\ form = "answered"
  /\ gen = None
  /\ N = 120
  /\ Len(ChunksBuilt) = 3
  /\ Len(ChunksBuilt[3]) = 20

(***************************************************************************)
(* C11.  No record with a port outside 1..65535 ever enters self.proxies   *)
(* or a chunk: _parse_proxy_row returns None for every row whose port text *)
(* is not a number of that range.                                          *)
(***************************************************************************)
C11_PortsInRange ==
  \A i \in DOMAIN proxies : proxies[i].port >= 1 /\ proxies[i].port <= 65535

(***************************************************************************)
(* C12.  When neither the token argument nor PERSONAL_TOKEN is a           *)
(* non-empty string, __init__ raises: the spider is never opened, the      *)
(* listing page is never fetched, no request goes to the upload endpoint   *)
(* and no file is written.                                                 *)
(***************************************************************************)
C12_NoTokenNoRun ==
  (pc # "new" /\ personal_token \in { None, Some(<< >>) }) =>
    /\ pc = "failed"
    /\ source = "unsent"
    /\ listing = None
    /\ proxies = << >>
    /\ ~UploadStarted
    /\ DOMAIN results = {}
    /\ log = << >>
    /\ \A name \in DOMAIN files : files[name] = None /\ writes[name] = 0

\* the spider was built with an empty token and an empty PERSONAL_TOKEN
C12_Witness ==
  /\ pc = "failed"
  /\ personal_token = Some(<< >>)

(***************************************************************************)
(* C13.  When the listing page has no row of either table shape, the run   *)
(* is aborted in parse_proxies with the "Could not find proxy table"       *)
(* report, before anything that follows extraction: no record is added,    *)
(* proxies.json is not written, no request goes to the upload endpoint     *)
(* and finalization is never triggered.                                    *)
(***************************************************************************)
C13_NoTableAborts ==
  (listing # None /\ listing[1].rows = 0) =>
    /\ Logged("no_table")
    /\ N = 0
    /\ SaveAttempts = 0
    /\ files.proxies_json = None
    /\ ~UploadStarted
    /\ Aborted
    /\ DOMAIN results = {}
    /\ ~Finalized

\* the source answered with a page without rows and the report was logged
C13_Witness ==
  /\ listing # None
  /\ listing[1].rows = 0
  /\ Logged("no_table")
  /\ Aborted

(***************************************************************************)
(* C14.  _extract_protocols is total: for every protocol cell, absent,     *)
(* without text or with any text, it returns a non-empty list of elements  *)
(* of {HTTP, HTTPS, SOCKS4, SOCKS5}, none of them repeated.                *)
(***************************************************************************)
C14_ProtocolsTotal ==
  (call # None /\ call[1].fn = "_extract_protocols" /\ returned # None) =>
    /\ returned[1] # << >>
    /\ Range(returned[1]) \subseteq { "HTTP", "HTTPS", "SOCKS4", "SOCKS5" }
    /\ \A i, j \in DOMAIN returned[1] : i # j => returned[1][i] # returned[1][j]

\* a cell naming https and socks is classified with all four protocols
C14_Witness ==
  /\ call # None
  /\ call[1].fn = "_extract_protocols"
  /\ returned = Some(<< "HTTP", "HTTPS", "SOCKS4", "SOCKS5" >>)

(***************************************************************************)
(* C15.  _extract_save_id is total: for every response text, the empty     *)
(* text included, and every chunk index it returns a non-empty string,     *)
(* whichever pattern matches or none.                                      *)
(***************************************************************************)
C15_SaveIdTotal ==
  (call # None /\ call[1].fn = "_extract_save_id" /\ returned # None) =>
    /\ returned[1] # << >>
    /\ \A i \in DOMAIN returned[1] : returned[1][i] \in STRING

\* the empty response is given the synthetic identifier of its chunk
C15_Witness ==
  /\ call # None
  /\ call[1].fn = "_extract_save_id"
  /\ call[1].arg.response_text = << >>
  /\ call[1].arg.chunk_index = 2
  /\ returned = Some(<<"u","p","l","o","a","d","_","1","_","2">>)

\* the phase of the run, read off the state: the listing page not asked
\* for (INIT), asked for (EXTRACTING), the GET of the upload endpoint
\* outstanding (BATCHING), chunks being sent and answered (UPLOADING)
Phase ==
  IF pc # "open" THEN "INIT"
  ELSE IF Finalized THEN "FINALIZED"
  ELSE IF source = "unsent" THEN "INIT"
  ELSE IF source = "inflight" THEN "EXTRACTING"
  ELSE IF ~UploadStarted THEN "ABORTED"
  ELSE IF form = "inflight" THEN "BATCHING"
  ELSE "UPLOADING"

PhaseRank(phase) ==
  CASE phase = "INIT"       -> 0
    [] phase = "EXTRACTING" -> 1
    [] phase = "BATCHING"   -> 2
    [] phase = "UPLOADING"  -> 3
    [] phase = "FINALIZED"  -> 4
    [] phase = "ABORTED"    -> 4

(***************************************************************************)
(* C16.  No step of a run returns to an earlier phase of INIT ->           *)
(* EXTRACTING -> BATCHING -> UPLOADING -> FINALIZED; ABORTED is entered    *)
(* from EXTRACTING only; and FINALIZED and ABORTED are terminal: once in   *)
(* either, the phase stays, nothing is extracted, no chunk is built and    *)
(* no request is sent.                                                     *)
(***************************************************************************)
C16_PhaseForward ==
  [][ /\ PhaseRank(Phase') >= PhaseRank(Phase)
      /\ (Phase' = "ABORTED" /\ Phase # "ABORTED") => Phase = "EXTRACTING"
      /\ Phase \in { "FINALIZED", "ABORTED" } =>
           /\ Phase' = Phase
           /\ proxies' = proxies
           /\ listing' = listing
           /\ source' = source
           /\ form' = form
           /\ gen' = gen
           /\ DOMAIN inflight' \subseteq DOMAIN inflight ]_vars

\* a run of three chunks has gone through every phase to FINALIZED
C16_Witness ==
  /\ Phase = "FINALIZED"
  /\ Len(Acks) = 3
  /\ gen = None
  /\ DOMAIN inflight = {}

(***************************************************************************)
(* C17.  On a key collision self.results follows last-writer-wins: the     *)
(* map has one entry per distinct save_id acknowledged, so a second        *)
(* insertion under the same save_id leaves its size unchanged, and the     *)
(* entry holds exactly the strings of the chunk acknowledged last under    *)
(* that save_id.                                                           *)
(***************************************************************************)
C17_LastWriterWins ==
  /\ DOMAIN results = { Acks[i].save_id : i \in DOMAIN Acks }
  /\ \A i \in DOMAIN Acks :
       (\A j \in (i + 1)..Len(Acks) : Acks[j].save_id # Acks[i].save_id)
         => results[Acks[i].save_id] = BatchOf(Acks[i].chunk_index)

\* chunk 1 and then chunk 0 were acknowledged with the same save_id: one
\* entry, holding the 50 strings of chunk 0
C17_Witness ==
  /\ Len(Acks) = 2
  /\ Acks[1].chunk_index = 1
  /\ Acks[2].chunk_index = 0
  /\ Acks[1].save_id = Acks[2].save_id
  /\ Cardinality(DOMAIN results) = 1
  /\ Len(results[Acks[2].save_id]) = chunk_size

\* the chunks _submit_form has sent: each is in flight or acknowledged
Dispatched == Cardinality(DOMAIN inflight) + Len(Acks)

\* the chunks _submit_form has built and not yet sent
Undispatched == IF gen = None THEN 0 ELSE Len(gen[1].chunks)

\* for every record count, expected_chunks is the ceiling of count / 50 and
\* the number of chunks _submit_form builds
CountsAgree ==
  \A n \in 0..MaxRows :
    /\ ExpectedChunks(n) = Ceil(n, chunk_size)
    /\ ExpectedChunks(n) = RangeLen(n, chunk_size)

(***************************************************************************)
(* C18.  expected_chunks, (len(self.proxies) + 49) // 50, is               *)
(* ceil(len(self.proxies) / 50) and is the number of POSTs _submit_form    *)
(* sends, for every record count; and it does not change from the first    *)
(* request to the upload endpoint to the end of the run.                   *)
(***************************************************************************)
C18_ExpectedIsDispatched ==
  /\ [](CountsAgree)
  /\ [](form = "answered" =>
          /\ Dispatched + Undispatched = ExpectedChunks(N)
          /\ Dispatched + Undispatched = Ceil(N, chunk_size))
  /\ [][UploadStarted => ExpectedChunks(Len(proxies')) = ExpectedChunks(Len(proxies))]_vars

\* 120 records: three POSTs sent, two of them acknowledged, three expected
C18_Witness ==
  /\ N = 120
  /\ form = "answered"
  /\ gen = None
  /\ Len(Acks) = 2
  /\ Cardinality(DOMAIN inflight) = 1
  /\ ExpectedChunks(N) = 3

\* the indexes of the chunks sent so far
SentIndexes == (DOMAIN inflight) \cup { Acks[i].chunk_index : i \in DOMAIN Acks }

(***************************************************************************)
(* C19.  The POSTs are sent in chunk-index order, one per chunk: the       *)
(* indexes sent are always 0 .. k-1, each once, and the next one sent is   *)
(* k.  Sending never waits for a response: while a chunk is left to send   *)
(* the generator can be resumed whatever is in flight, so that all POSTs   *)
(* can be outstanding with no response handled.                            *)
(***************************************************************************)
C19_InOrderWithoutWaiting ==
  /\ [](/\ SentIndexes = 0..(Dispatched - 1)
        /\ gen # None => gen[1].chunk_index = Dispatched
        /\ gen # None => ENABLED SubmitFormNext)
  /\ [][\A k \in (DOMAIN inflight') \ (DOMAIN inflight) : k = Dispatched]_vars

\* three POSTs outstanding and no response handled
C19_Witness ==
  /\ N = 120
  /\ gen = None
  /\ DOMAIN inflight = 0..2
  /\ Acks = << >>
  /\ DOMAIN results = {}

(***************************************************************************)
(* C20.  A failed write blocks nothing.  When the write of proxies.json    *)
(* fails, the records stay as extracted and the request to the upload      *)
(* endpoint is still issued; when the write of results.json fails at       *)
(* finalization, the write of time.txt is still attempted, finalization    *)
(* completes, and self.proxies and self.results are as they were.          *)
(***************************************************************************)
C20_WriteFailureIsolated ==
  /\ Logged("save_proxies") =>
       /\ proxies = Extracted[listing[1]]
       /\ N >= 1 => UploadStarted
  /\ Logged("save_results") =>
       /\ writes.time_txt = 1 \/ Logged("save_time")
       /\ Finalized
       /\ proxies = Extracted[listing[1]]
       /\ DOMAIN results = { Acks[i].save_id : i \in DOMAIN Acks }
       /\ \A key \in DOMAIN results : results[key] # << >>

\* both proxies.json and results.json failed to be written; the three chunks
\* were uploaded all the same and time.txt was written
C20_Witness ==
  /\ Logged("save_proxies")
  /\ Logged("save_results")
  /\ files.proxies_json = None
  /\ files.results_json = None
  /\ writes.time_txt = 1
  /\ Len(Acks) = 3
  /\ Finalized

\* the log entries of the responses no pattern matched
Fallbacks == { i \in DOMAIN log : log[i].event = "fallback" }

\* every acknowledgement so far carries a synthetic identifier
AllFellBack ==
  \A i \in DOMAIN Acks : \E j \in Fallbacks : log[j].chunk_index = Acks[i].chunk_index

\* the synthetic identifiers of two different chunk indexes differ, for
\* every pair of clock readings
IdsApart ==
  \A t1, t2 \in 0..MaxClock, k1, k2 \in 0..(ExpectedChunks(RowLimit) - 1) :
    k1 # k2 => SyntheticId(t1, k1) # SyntheticId(t2, k2)

(***************************************************************************)
(* C21.  The synthetic identifiers of two different chunk indexes are      *)
(* distinct whatever the two clock readings, equal or not, in order or     *)
(* not; so while every response handled fell back to a synthetic           *)
(* identifier the ResultMap has one entry per batch acknowledged, and      *)
(* ceil(N / 50) entries once every batch is answered.                      *)
(***************************************************************************)
C21_SyntheticIdsDistinct ==
  /\ IdsApart
  /\ \A i, j \in Fallbacks :
       log[i].chunk_index # log[j].chunk_index => log[i].save_id # log[j].save_id
  /\ AllFellBack =>
       /\ Cardinality(DOMAIN results) = Len(Acks)
       /\ (AllAnswered /\ N >= 1) => Cardinality(DOMAIN results) = Ceil(N, chunk_size)

\* three batches, each given a synthetic identifier at the same clock
\* reading, and three entries in the ResultMap
C21_Witness ==
  /\ now = 0
  /\ Len(Acks) = 3
  /\ Cardinality(Fallbacks) = 3
  /\ Cardinality(DOMAIN results) = 3

\* the GET of the upload endpoint has been answered: _submit_form has been called
FormArrived == form = "answered"

(***************************************************************************)
(* C22.  No POST is sent before the response to the GET of the upload      *)
(* endpoint has arrived.  Until then no chunk is built, sent or            *)
(* acknowledged and the run is not finalized; the first chunk is sent in   *)
(* the very step that handles that response, and that GET was issued       *)
(* before; and a run in which the response never arrives sends no POST     *)
(* and never finalizes.                                                    *)
(***************************************************************************)
C22_PostsAwaitTheForm ==
  /\ [](~FormArrived =>
          /\ gen = None
          /\ Dispatched = 0
          /\ DOMAIN results = {}
          /\ ~Finalized)
  /\ [][(Dispatched = 0 /\ Cardinality(DOMAIN inflight') > 0)
          => (form = "inflight" /\ form' = "answered")]_vars
  /\ [][(DOMAIN inflight') \ (DOMAIN inflight) # {} => form' = "answered"]_vars
  /\ ([](~FormArrived) => [](Dispatched = 0 /\ ~Finalized))

\* 120 records extracted and saved, the GET of the upload endpoint issued
\* and not yet answered: nothing sent
C22_Witness ==
  /\ N = 120
  /\ writes.proxies_json = 1
  /\ form = "inflight"
  /\ Dispatched = 0
  /\ gen = None

\* the listing page the source answered with, cut after its first RowLimit rows
CutListing == [ listing[1] EXCEPT !.rows = IF @ > RowLimit THEN RowLimit ELSE @ ]

(***************************************************************************)
(* C23.  Only the first 150 rows of the table are examined: the records    *)
(* of a page are those of its first 150 rows, whatever follows them.  So   *)
(* there are never more than 150 records, never more than 3 chunks, built  *)
(* or sent, with indexes 0 to 2, and never more than 3 entries in the      *)
(* ResultMap.                                                              *)
(***************************************************************************)
C23_AtMostThreeBatches ==
  /\ (listing # None /\ Found[listing[1]]) => proxies = Extracted[CutListing]
  /\ N <= 150
  /\ Dispatched + Undispatched <= 3
  /\ SentIndexes \subseteq 0..2
  /\ Cardinality(DOMAIN results) <= 3
  /\ files.results_json # None => Cardinality(DOMAIN files.results_json[1]) <= 3

\* a page of more than 150 rows, each a valid proxy: 150 records, three
\* chunks sent and acknowledged, three entries, the run finalized
C23_Witness ==
  /\ listing # None
  /\ listing[1].rows > 150
  /\ N = 150
  /\ Len(Acks) = 3
  /\ Cardinality(DOMAIN results) = 3
  /\ Finalized

=============================================================================
